---------------------------- MODULE Spec2Model ----------------------------
(***************************************************************************)
(* Constrained-record validation of the three exercises:                   *)
(*   ex0/space_station.py  SpaceStation, create_space_station              *)
(*   ex1/alien_contact.py  AlienContact, validate_contact,                 *)
(*                         create_alien_contact                            *)
(*   ex2/space_crew.py     CrewMember, SpaceMission, validate_mission,     *)
(*                         create_space_mission, main's shared crew list   *)
(*                                                                         *)
(* Python values are records [t, n, s]: t is the Python type, n the        *)
(* number it holds (floats in tenths: 85.5 is 855), s the text it holds.   *)
(* A keyword that is not passed is the value Missing.                      *)
(***************************************************************************)
EXTENDS Integers, Sequences, FiniteSets, TLC

VARIABLES
    call,       \* which create_* function the caller uses: "station", "contact", "mission"
    kwargs,     \* the keyword arguments of the call: field name -> Python value
    crew,       \* the caller's crew list object (a list of dicts), shared by every call
    result,     \* what the latest create_* call printed (or the exception that left it)
    prevKind,   \* the kind of outcome of the call before the latest one
    mutated,    \* the crew list was mutated since the latest call
    revalidated \* the latest call came after a mutation that followed an earlier call

vars == <<call, kwargs, crew, result, prevKind, mutated, revalidated>>

---------------------------------------------------------------------------
(* Python values *)

Val(t, n, s) == [t |-> t, n |-> n, s |-> s]
Missing      == Val("missing", 0, "")
PyNone       == Val("none", 0, "")
PyStr(s)     == Val("str", 0, s)
PyInt(n)     == Val("int", n, "")
PyFloat(n)   == Val("float", n, "")      \* n is the value in tenths
PyBool(b)    == Val("bool", IF b THEN 1 ELSE 0, "")
PyDateTime(s) == Val("datetime", 0, s)
PyEnum(cls, member) == Val(cls, 0, member)
PyListRef    == Val("list", 0, "crew")   \* a reference to the caller's list object

\* The text of n copies of c.
RECURSIVE Rep(_, _)
Rep(c, n) ==
    IF n <= 0 THEN ""
    ELSE LET half == Rep(c, n \div 2)
         IN  IF n % 2 = 0 THEN half \o half ELSE half \o half \o c

Digits == <<"0", "1", "2", "3", "4", "5", "6", "7", "8", "9">>

IsDigit(c) == \E i \in 1..10 : Digits[i] = c

DigitOf(c) == (CHOOSE i \in 1..10 : Digits[i] = c) - 1

IsNat(s) == Len(s) > 0 /\ \A i \in 1..Len(s) : IsDigit(SubSeq(s, i, i))

RECURSIVE ParseNat(_)
ParseNat(s) ==
    IF Len(s) = 0 THEN 0
    ELSE 10 * ParseNat(SubSeq(s, 1, Len(s) - 1)) + DigitOf(SubSeq(s, Len(s), Len(s)))

startswith(s, prefix) ==
    Len(s) >= Len(prefix) /\ SubSeq(s, 1, Len(prefix)) = prefix

\* An ISO 8601 date-time of the shape main passes, "2026-01-27T12:09".
IsIsoDateTime(s) ==
    /\ Len(s) = 16
    /\ SubSeq(s, 5, 5) = "-" /\ SubSeq(s, 8, 8) = "-"
    /\ SubSeq(s, 11, 11) = "T" /\ SubSeq(s, 14, 14) = ":"
    /\ IsNat(SubSeq(s, 1, 4)) /\ IsNat(SubSeq(s, 6, 7)) /\ IsNat(SubSeq(s, 9, 10))
    /\ IsNat(SubSeq(s, 12, 13)) /\ IsNat(SubSeq(s, 15, 16))
    /\ ParseNat(SubSeq(s, 1, 4)) >= 1
    /\ ParseNat(SubSeq(s, 6, 7)) \in 1..12
    /\ ParseNat(SubSeq(s, 9, 10)) \in 1..31
    /\ ParseNat(SubSeq(s, 12, 13)) \in 0..23
    /\ ParseNat(SubSeq(s, 15, 16)) \in 0..59

---------------------------------------------------------------------------
(* Enumerations *)

ContactType ==
    [RADIO |-> "radio", VISUAL |-> "visual",
     PHYSICAL |-> "physical", TELEPATHIC |-> "telepathic"]

Rank ==
    [CADET |-> "cadet", OFFICER |-> "officer", LIEUTENANT |-> "lieutenant",
     CAPTAIN |-> "captain", COMMANDER |-> "commander"]

EnumOf(cls) == IF cls = "ContactType" THEN ContactType ELSE Rank

EnumNames(cls) == DOMAIN EnumOf(cls)

---------------------------------------------------------------------------
(* Field declarations.  lo/hi are the inclusive bounds of Field(...):      *)
(* min_length/max_length of a str or list, ge/le of a number (a float's    *)
(* in tenths); NoBound where the declaration gives none.                   *)

NoBound == -1

Fld(name, kind, lo, hi, required, default) ==
    [name |-> name, kind |-> kind, lo |-> lo, hi |-> hi,
     required |-> required, default |-> default]

SpaceStationSchema ==
    << Fld("station_id", "str", 3, 10, TRUE, Missing),
       Fld("name", "str", 1, 50, TRUE, Missing),
       Fld("crew_size", "int", 1, 20, TRUE, Missing),
       Fld("power_level", "float", 0, 1000, TRUE, Missing),
       Fld("oxygen_level", "float", 0, 1000, TRUE, Missing),
       Fld("last_maintenance", "datetime", NoBound, NoBound, TRUE, Missing),
       Fld("is_operational", "bool", NoBound, NoBound, FALSE, PyBool(TRUE)),
       Fld("notes", "optstr", NoBound, 200, FALSE, PyNone) >>

AlienContactSchema ==
    << Fld("contact_id", "str", 5, 15, TRUE, Missing),
       Fld("timestamp", "datetime", NoBound, NoBound, TRUE, Missing),
       Fld("location", "str", 3, 100, TRUE, Missing),
       Fld("contact_type", "ContactType", NoBound, NoBound, TRUE, Missing),
       Fld("signal_strength", "float", 0, 100, TRUE, Missing),
       Fld("duration_minutes", "int", 1, 1440, TRUE, Missing),
       Fld("witness_count", "int", 1, 100, TRUE, Missing),
       Fld("message_received", "optstr", NoBound, 500, FALSE, PyNone),
       Fld("is_verified", "bool", NoBound, NoBound, FALSE, PyBool(FALSE)) >>

\* A faulty variant of CrewMemberSchema: is_active defaults to False.
CrewMemberSchemaInactive ==
    << Fld("member_id", "str", 3, 10, TRUE, Missing),
       Fld("name", "str", 2, 50, TRUE, Missing),
       Fld("rank", "Rank", NoBound, NoBound, TRUE, Missing),
       Fld("age", "int", 18, 80, TRUE, Missing),
       Fld("specialization", "str", 3, 30, TRUE, Missing),
       Fld("years_experience", "int", 0, 50, TRUE, Missing),
       Fld("is_active", "bool", NoBound, NoBound, FALSE, PyBool(FALSE)) >>

CrewMemberSchema ==
    << Fld("member_id", "str", 3, 10, TRUE, Missing),
       Fld("name", "str", 2, 50, TRUE, Missing),
       Fld("rank", "Rank", NoBound, NoBound, TRUE, Missing),
       Fld("age", "int", 18, 80, TRUE, Missing),
       Fld("specialization", "str", 3, 30, TRUE, Missing),
       Fld("years_experience", "int", 0, 50, TRUE, Missing),
       Fld("is_active", "bool", NoBound, NoBound, FALSE, PyBool(TRUE)) >>

\* A faulty variant of SpaceMissionSchema: crew has no min_length.
SpaceMissionSchemaAnyCount ==
    << Fld("mission_id", "str", 5, 15, TRUE, Missing),
       Fld("mission_name", "str", 3, 100, TRUE, Missing),
       Fld("destination", "str", 3, 50, TRUE, Missing),
       Fld("launch_date", "datetime", NoBound, NoBound, TRUE, Missing),
       Fld("duration_days", "int", 1, 3650, TRUE, Missing),
       Fld("crew", "crewlist", NoBound, 12, TRUE, Missing),
       Fld("mission_status", "str", NoBound, NoBound, FALSE, PyStr("planned")),
       Fld("budget_millions", "float", 10, 100000, TRUE, Missing) >>

SpaceMissionSchema ==
    << Fld("mission_id", "str", 5, 15, TRUE, Missing),
       Fld("mission_name", "str", 3, 100, TRUE, Missing),
       Fld("destination", "str", 3, 50, TRUE, Missing),
       Fld("launch_date", "datetime", NoBound, NoBound, TRUE, Missing),
       Fld("duration_days", "int", 1, 3650, TRUE, Missing),
       Fld("crew", "crewlist", 1, 12, TRUE, Missing),
       Fld("mission_status", "str", NoBound, NoBound, FALSE, PyStr("planned")),
       Fld("budget_millions", "float", 10, 100000, TRUE, Missing) >>

SchemaOf(c) ==
    CASE c = "station" -> SpaceStationSchema
      [] c = "contact" -> AlienContactSchema
      [] c = "member"  -> CrewMemberSchema
      [] OTHER         -> SpaceMissionSchema

FieldNames(schema) == {schema[i].name : i \in 1..Len(schema)}

---------------------------------------------------------------------------
(* Field validation: coercion to the declared type, then the bounds.       *)
(* A field result is [ok, val, err]: the typed value, or the error type.   *)

Good(v)  == [ok |-> TRUE, val |-> v, err |-> ""]
Bad(err) == [ok |-> FALSE, val |-> Missing, err |-> err]

\* A faulty variant of CheckRange: the upper bound is exclusive.
CheckRangeExclusive(n, fld, v) ==
    IF fld.lo # NoBound /\ n < fld.lo THEN Bad("greater_than_equal")
    ELSE IF fld.hi # NoBound /\ n >= fld.hi THEN Bad("less_than_equal")
    ELSE Good(v)

\* A faulty variant of CheckRange: the upper bound is not looked at.
CheckRangeNoUpper(n, fld, v) ==
    IF fld.lo # NoBound /\ n < fld.lo THEN Bad("greater_than_equal")
    ELSE Good(v)

\* Field(ge=lo, le=hi): both bounds are inclusive.
CheckRange(n, fld, v) ==
    IF fld.lo # NoBound /\ n < fld.lo THEN Bad("greater_than_equal")
    ELSE IF fld.hi # NoBound /\ n > fld.hi THEN Bad("less_than_equal")
    ELSE Good(v)

\* Field(min_length=lo, max_length=hi) of a str.
CheckLength(s, fld) ==
    IF fld.lo # NoBound /\ Len(s) < fld.lo THEN Bad("string_too_short")
    ELSE IF fld.hi # NoBound /\ Len(s) > fld.hi THEN Bad("string_too_long")
    ELSE Good(PyStr(s))

ValidateStr(raw, fld) ==
    IF raw.t = "str" THEN CheckLength(raw.s, fld) ELSE Bad("string_type")

ValidateInt(raw, fld) ==
    CASE raw.t = "int" -> CheckRange(raw.n, fld, PyInt(raw.n))
      [] raw.t = "str" ->
            IF IsNat(raw.s)
            THEN CheckRange(ParseNat(raw.s), fld, PyInt(ParseNat(raw.s)))
            ELSE Bad("int_parsing")
      [] raw.t = "float" ->
            IF raw.n % 10 = 0
            THEN CheckRange(raw.n \div 10, fld, PyInt(raw.n \div 10))
            ELSE Bad("int_from_float")
      [] OTHER -> Bad("int_type")

ValidateFloat(raw, fld) ==
    CASE raw.t = "float" -> CheckRange(raw.n, fld, PyFloat(raw.n))
      [] raw.t = "int" -> CheckRange(raw.n * 10, fld, PyFloat(raw.n * 10))
      [] OTHER -> Bad("float_type")

ValidateDateTime(raw) ==
    CASE raw.t = "datetime" -> Good(raw)
      [] raw.t = "str" ->
            IF IsIsoDateTime(raw.s) THEN Good(PyDateTime(raw.s))
            ELSE Bad("datetime_from_date_parsing")
      [] OTHER -> Bad("datetime_type")

ValidateBool(raw) ==
    CASE raw.t = "bool" -> Good(raw)
      [] raw.t = "str" ->
            IF raw.s \in {"true", "yes", "on", "1"} THEN Good(PyBool(TRUE))
            ELSE IF raw.s \in {"false", "no", "off", "0"} THEN Good(PyBool(FALSE))
            ELSE Bad("bool_parsing")
      [] OTHER -> Bad("bool_type")

\* An Enum field takes a member of the class or the value of one.
ValidateEnum(raw, cls) ==
    CASE raw.t = cls /\ raw.s \in EnumNames(cls) -> Good(raw)
      [] raw.t = "str" /\ (\E m \in EnumNames(cls) : EnumOf(cls)[m] = raw.s) ->
            Good(PyEnum(cls, CHOOSE m \in EnumNames(cls) : EnumOf(cls)[m] = raw.s))
      [] OTHER -> Bad("enum")

\* One keyword against its declaration.  A keyword that is not passed is an
\* error when the field has no default, else the default as declared.
ValidateField(raw, fld) ==
    IF raw = Missing
    THEN IF fld.required THEN Bad("missing") ELSE Good(fld.default)
    ELSE CASE fld.kind = "str" -> ValidateStr(raw, fld)
           [] fld.kind = "optstr" ->
                 IF raw.t = "none" THEN Good(PyNone) ELSE ValidateStr(raw, fld)
           [] fld.kind = "int" -> ValidateInt(raw, fld)
           [] fld.kind = "float" -> ValidateFloat(raw, fld)
           [] fld.kind = "datetime" -> ValidateDateTime(raw)
           [] fld.kind = "bool" -> ValidateBool(raw)
           [] OTHER -> ValidateEnum(raw, fld.kind)

---------------------------------------------------------------------------
(* Record validation.  An error is [loc, type, msg]; loc is the path of    *)
(* the field from the root record, <<"crew", 1, "age">> for crew[1].age,   *)
(* and <<>> for an error of the record as a whole.                         *)

Err(loc, type, msg) == [loc |-> loc, type |-> type, msg |-> msg]

\* The lists of a list, joined in order.
RECURSIVE Flatten(_)
Flatten(lists) ==
    IF lists = <<>> THEN <<>> ELSE Head(lists) \o Flatten(Tail(lists))

\* The error of one field, located under prefix; none when it validates.
FieldErrors(fld, data, prefix) ==
    LET r == ValidateField(data[fld.name], fld)
    IN  IF r.ok THEN <<>> ELSE <<Err(prefix \o <<fld.name>>, r.err, "")>>

\* A CrewMember from the dict at (0-based) index idx of the crew list:
\* every field is checked, in declaration order.
ValidateMember(d, idx) ==
    [inst   |-> [f \in FieldNames(CrewMemberSchema) |->
                    ValidateField(d[f],
                        CrewMemberSchema[CHOOSE i \in 1..Len(CrewMemberSchema) :
                                            CrewMemberSchema[i].name = f]).val],
     errors |-> Flatten([i \in 1..Len(CrewMemberSchema) |->
                            FieldErrors(CrewMemberSchema[i], d, <<"crew", idx>>)])]

\* crew: list[CrewMember] = Field(min_length=1, max_length=12), given the
\* outcome m of validating each element.  The list validator counts the
\* elements as it validates them and gives up with too_long alone at the
\* first one past max_length; the elements' errors come next, and
\* min_length is looked at only when there is none.
CrewResult(raw, fld, m) ==
    CASE raw = Missing -> [insts |-> <<>>, errors |-> <<Err(<<"crew">>, "missing", "")>>]
      [] raw.t # "list" -> [insts |-> <<>>, errors |-> <<Err(<<"crew">>, "list_type", "")>>]
      [] Len(m) > fld.hi -> [insts |-> <<>>, errors |-> <<Err(<<"crew">>, "too_long", "")>>]
      [] \E i \in 1..Len(m) : m[i].errors # <<>> ->
            [insts |-> <<>>, errors |-> Flatten([i \in 1..Len(m) |-> m[i].errors])]
      [] Len(m) < fld.lo -> [insts |-> <<>>, errors |-> <<Err(<<"crew">>, "too_short", "")>>]
      [] OTHER -> [insts |-> [i \in 1..Len(m) |-> m[i].inst], errors |-> <<>>]

\* A faulty variant of ValidateCrew: the elements are numbered from 1.
ValidateCrewOneBased(raw, items, fld) ==
    CrewResult(raw, fld, [i \in 1..Len(items) |-> ValidateMember(items[i], i)])

ValidateCrew(raw, items, fld) ==
    CrewResult(raw, fld, [i \in 1..Len(items) |-> ValidateMember(items[i], i - 1)])

IsCrewField(fld) == fld.kind = "crewlist"

\* Every field of a record, in declaration order, given the outcome crewR of
\* its crew field: the typed values, all the errors (none stops the others),
\* and the validated crew.
FieldsResult(schema, data, crewR) ==
    [vals    |-> [f \in FieldNames(schema) |->
                    IF IsCrewField(schema[CHOOSE i \in 1..Len(schema) : schema[i].name = f])
                    THEN Val("list", Len(crewR.insts), "")
                    ELSE ValidateField(data[f],
                            schema[CHOOSE i \in 1..Len(schema) : schema[i].name = f]).val],
     errors  |-> Flatten([i \in 1..Len(schema) |->
                    IF IsCrewField(schema[i]) THEN crewR.errors
                    ELSE FieldErrors(schema[i], data, <<>>)]),
     members |-> crewR.insts]

NoCrew == [insts |-> <<>>, errors |-> <<>>]

ValidateFields(schema, data, items) ==
    FieldsResult(schema, data,
        IF \E i \in 1..Len(schema) : IsCrewField(schema[i])
        THEN ValidateCrew(data["crew"], items,
                          schema[CHOOSE i \in 1..Len(schema) : IsCrewField(schema[i])])
        ELSE NoCrew)

---------------------------------------------------------------------------
(* The model validators (mode="after"): guard clauses on the constructed   *)
(* instance.  Each returns the exception it raises, "" for none.           *)

Raise(exc, msg) == [exc |-> exc, msg |-> msg]
Returns == Raise("", "")

\* A faulty variant of validate_contact: the strong-signal guard comes first.
validate_contact_reordered(self) ==
    IF self["signal_strength"].n > 70 /\ self["message_received"].t = "none"
    THEN Raise("ValueError", "Strong signals (> 7.0) should include received messages")
    ELSE IF ~startswith(self["contact_id"].s, "AC")
    THEN Raise("ValueError", "Contact ID must start with \"AC\" (Alien Contact)")
    ELSE IF self["contact_type"].s = "PHYSICAL" /\ self["is_verified"].n = 0
    THEN Raise("ValueError", "Physical contact reports must be verified")
    ELSE IF self["contact_type"].s = "TELEPATHIC" /\ self["witness_count"].n < 3
    THEN Raise("ValueError", "Telepathic contact requires at least 3 witnesses")
    ELSE Returns

validate_contact(self) ==
    IF ~startswith(self["contact_id"].s, "AC")
    THEN Raise("ValueError", "Contact ID must start with \"AC\" (Alien Contact)")
    ELSE IF self["contact_type"].s = "PHYSICAL" /\ self["is_verified"].n = 0
    THEN Raise("ValueError", "Physical contact reports must be verified")
    ELSE IF self["contact_type"].s = "TELEPATHIC" /\ self["witness_count"].n < 3
    THEN Raise("ValueError", "Telepathic contact requires at least 3 witnesses")
    ELSE IF self["signal_strength"].n > 70 /\ self["message_received"].t = "none"
    THEN Raise("ValueError", "Strong signals (> 7.0) should include received messages")
    ELSE Returns

\* len([member for member in self.crew if member.years_experience >= 5])
experienced_members(members) ==
    Cardinality({i \in 1..Len(members) : members[i]["years_experience"].n >= 5})

\* A faulty variant of BelowHalf: exactly one half counts as below.
BelowOrAtHalf(experienced, total) == 2 * experienced <= total

\* experienced_members / total_members < 0.5: the quotient of two counts of
\* at most a dozen is below one half exactly when twice the first is below
\* the second.
BelowHalf(experienced, total) == 2 * experienced < total

validate_mission(self, members) ==
    IF ~startswith(self["mission_id"].s, "M")
    THEN Raise("ValueError", "Mission ID must start with \"M\"")
    ELSE IF ~\E i \in 1..Len(members) : members[i]["rank"].s \in {"CAPTAIN", "COMMANDER"}
    THEN Raise("ValueError", "Must have at least one Commander or Captain")
    ELSE IF self["duration_days"].n > 365 /\ Len(members) = 0
    THEN Raise("ZeroDivisionError", "division by zero")
    ELSE IF self["duration_days"].n > 365
            /\ BelowHalf(experienced_members(members), Len(members))
    THEN Raise("ValueError", "Long missions (> 365 days) need 50% experienced crew (5+ years)")
    ELSE IF ~\A i \in 1..Len(members) : members[i]["is_active"].n = 1
    THEN Raise("ValueError", "All crew members must be active")
    ELSE Returns

RunModelValidator(c, self, members) ==
    CASE c = "contact" -> validate_contact(self)
      [] c = "mission" -> validate_mission(self, members)
      [] OTHER -> Returns

---------------------------------------------------------------------------
(* Construction of a SpaceStation, AlienContact or SpaceMission from the   *)
(* keyword arguments.  The outcome is the instance, or the exception that  *)
(* leaves the constructor.                                                 *)

NoInstance == [present |-> FALSE, fields |-> <<>>, crew |-> <<>>]

Instance(fields, members) == [present |-> TRUE, fields |-> fields, crew |-> members]

Outcome(exc, inst, errors) == [exc |-> exc, inst |-> inst, errors |-> errors]

\* A ValueError of the model validator leaves the constructor as a
\* ValidationError of one error located at the record; any other exception
\* of the model validator leaves as it is.
AfterValidator(r, v) ==
    IF v.exc = "" THEN Outcome("", Instance(r.vals, r.members), <<>>)
    ELSE IF v.exc = "ValueError"
    THEN Outcome("ValidationError", NoInstance, <<Err(<<>>, "value_error", v.msg)>>)
    ELSE Outcome(v.exc, NoInstance, <<>>)

\* A faulty variant of AfterFields: validation stops at the first field error.
AfterFieldsFirstOnly(c, r) ==
    IF r.errors # <<>> THEN Outcome("ValidationError", NoInstance, <<r.errors[1]>>)
    ELSE AfterValidator(r, RunModelValidator(c, r.vals, r.members))

\* Field errors leave as one ValidationError and keep the model validator
\* from running.
AfterFields(c, r) ==
    IF r.errors # <<>> THEN Outcome("ValidationError", NoInstance, r.errors)
    ELSE AfterValidator(r, RunModelValidator(c, r.vals, r.members))

Construct(c, data, items) ==
    AfterFields(c, ValidateFields(SchemaOf(c), data, items))

\* A faulty variant of Caught: except TypeError.
CaughtTypeError(exc) == exc = "TypeError"

\* except ValidationError as error
Caught(exc) == exc = "ValidationError"

\* try / except of create_*: the instance printed on stdout, or the errors
\* printed on stderr, or the exception that leaves the function.
Handle(o) ==
    IF o.exc = ""
    THEN [kind |-> "instance", inst |-> o.inst, errors |-> <<>>, exc |-> ""]
    ELSE IF Caught(o.exc)
    THEN [kind |-> "errors", inst |-> NoInstance, errors |-> o.errors, exc |-> ""]
    ELSE [kind |-> "uncaught", inst |-> NoInstance, errors |-> <<>>, exc |-> o.exc]

\* A faulty variant of Create: a list object that validated once is not
\* validated again.
CreateCached(c, data, items) ==
    IF c = "mission" /\ result.kind = "instance" THEN result
    ELSE Handle(Construct(c, data, items))

\* create_space_station / create_alien_contact / create_space_mission
Create(c, data, items) == Handle(Construct(c, data, items))

NoResult == [kind |-> "none", inst |-> NoInstance, errors |-> <<>>, exc |-> ""]

---------------------------------------------------------------------------
(* The callers' data: what main passes, and the values tried in its place  *)

MaxEdits == 3          \* keywords of a station or contact call changed from main's
MaxMissionEdits == 2   \* keywords, crew entries or crew length changed from main's

Calls == {"station", "contact", "mission"}

MainDate == PyStr("2026-01-27T12:09")

StationKwargs ==
    [station_id |-> PyStr("ISS001"),
     name |-> PyStr("International Space Station"),
     crew_size |-> PyInt(6),
     power_level |-> PyFloat(855),
     oxygen_level |-> PyFloat(923),
     last_maintenance |-> MainDate,
     is_operational |-> Missing,
     notes |-> Missing]

ContactKwargs ==
    [contact_id |-> PyStr("AC_2024_001"),
     timestamp |-> MainDate,
     location |-> PyStr("Area 51, Nevada"),
     contact_type |-> PyEnum("ContactType", "RADIO"),
     signal_strength |-> PyFloat(85),
     duration_minutes |-> PyInt(45),
     witness_count |-> PyInt(5),
     message_received |-> PyStr("Greetings from Zeta Reticuli"),
     is_verified |-> Missing]

MissionKwargs ==
    [mission_id |-> PyStr("M2024_MARS"),
     mission_name |-> PyStr("Mars Colony Establishment"),
     destination |-> PyStr("Mars"),
     launch_date |-> MainDate,
     duration_days |-> PyInt(900),
     crew |-> PyListRef,
     mission_status |-> Missing,
     budget_millions |-> PyFloat(25000)]

sarah ==
    [member_id |-> PyStr("CREW_001"), name |-> PyStr("Sarah Connor"),
     rank |-> PyEnum("Rank", "COMMANDER"), age |-> PyInt(32),
     specialization |-> PyStr("Mission Command"),
     years_experience |-> PyInt(12), is_active |-> Missing]

john ==
    [member_id |-> PyStr("CREW_002"), name |-> PyStr("John Smith"),
     rank |-> PyEnum("Rank", "LIEUTENANT"), age |-> PyInt(26),
     specialization |-> PyStr("Navigation"),
     years_experience |-> PyInt(3), is_active |-> Missing]

alice ==
    [member_id |-> PyStr("CREW_003"), name |-> PyStr("Alice Johnson "),
     rank |-> PyEnum("Rank", "OFFICER"), age |-> PyInt(27),
     specialization |-> PyStr("Engineering"),
     years_experience |-> PyInt(6), is_active |-> Missing]

\* main's crew list cut or continued to n entries (john again past alice).
CrewOfLength(n) ==
    [i \in 1..n |-> IF i = 1 THEN sarah ELSE IF i = 3 THEN alice ELSE john]

CrewLengths == {0, 1, 2, 3, 4, 12, 13}

MainKwargs(c) ==
    CASE c = "station" -> StationKwargs
      [] c = "contact" -> ContactKwargs
      [] OTHER         -> MissionKwargs

\* The values tried for a keyword besides main's.
KwPool(c, f) ==
    CASE c = "station" /\ f = "station_id" ->
            {PyStr("IS"), PyStr("ISS"), PyStr(Rep("S", 10)), PyStr(Rep("S", 11)), PyInt(1)}
      [] c = "station" /\ f = "name" -> {PyStr(""), PyStr(Rep("n", 51))}
      [] c = "station" /\ f = "crew_size" ->
            {PyInt(0), PyInt(1), PyInt(20), PyInt(21), PyInt(32), PyStr("32"),
             PyStr("six"), PyFloat(65), Missing}
      [] c = "station" /\ f = "power_level" -> {PyFloat(-1), PyFloat(1000), PyFloat(1001), PyInt(100)}
      [] c = "station" /\ f = "oxygen_level" -> {PyFloat(0), PyNone}
      [] c = "station" /\ f = "last_maintenance" -> {PyStr("2026-13-27T12:09"), Missing}
      [] c = "station" /\ f = "is_operational" ->
            {PyBool(TRUE), PyBool(FALSE), PyStr("maybe")}
      [] c = "station" /\ f = "notes" -> {PyNone, PyStr("ok"), PyStr(Rep("n", 201))}
      [] c = "contact" /\ f = "contact_id" -> {PyStr("XX_2024_001"), PyStr("AC_1")}
      [] c = "contact" /\ f = "timestamp" -> {PyStr("yesterday")}
      [] c = "contact" /\ f = "location" -> {PyStr("A5")}
      [] c = "contact" /\ f = "contact_type" ->
            {PyEnum("ContactType", "PHYSICAL"), PyEnum("ContactType", "TELEPATHIC"),
             PyStr("visual"), PyStr("psychic")}
      [] c = "contact" /\ f = "signal_strength" -> {PyFloat(70), PyFloat(71), PyFloat(101)}
      [] c = "contact" /\ f = "duration_minutes" -> {PyInt(1440), PyInt(1441)}
      [] c = "contact" /\ f = "witness_count" -> {PyInt(0), PyInt(1), PyInt(2), PyInt(3)}
      [] c = "contact" /\ f = "message_received" -> {Missing, PyNone, PyStr(Rep("m", 501))}
      [] c = "contact" /\ f = "is_verified" -> {PyBool(FALSE), PyBool(TRUE)}
      [] c = "mission" /\ f = "mission_id" -> {PyStr("X2024_MARS"), PyStr("M1")}
      [] c = "mission" /\ f = "mission_name" -> {PyStr("Ma")}
      [] c = "mission" /\ f = "launch_date" -> {PyStr("yesterday")}
      [] c = "mission" /\ f = "duration_days" -> {PyInt(0), PyInt(365), PyInt(366)}
      [] c = "mission" /\ f = "crew" -> {Missing, PyNone}
      [] c = "mission" /\ f = "mission_status" -> {PyStr("planned"), PyStr("active"), PyInt(1)}
      [] c = "mission" /\ f = "budget_millions" -> {PyFloat(5)}
      [] OTHER -> {}

\* The values tried for an entry of a crew member's dict besides main's.
MemberPool(f) ==
    CASE f = "member_id" -> {PyStr("C1")}
      [] f = "rank" -> {PyEnum("Rank", "CADET"), PyEnum("Rank", "CAPTAIN"), PyStr("admiral")}
      [] f = "age" -> {PyInt(17), PyInt(81)}
      [] f = "years_experience" -> {PyInt(4), PyInt(5), PyInt(51)}
      [] f = "is_active" -> {PyBool(TRUE), PyBool(FALSE)}
      [] OTHER -> {}

\* The places of a call's data that may be changed: its keywords in
\* declaration order, then the entries of the n crew dicts.
Slots(c, n) ==
    LET schema == SchemaOf(c)
        m      == Len(CrewMemberSchema)
    IN  [j \in 1..(Len(schema) + n * m) |->
            IF j <= Len(schema)
            THEN [i |-> 0, f |-> schema[j].name]
            ELSE [i |-> ((j - Len(schema) - 1) \div m) + 1,
                  f |-> CrewMemberSchema[((j - Len(schema) - 1) % m) + 1].name]]

SlotPool(c, slot) == IF slot.i = 0 THEN KwPool(c, slot.f) ELSE MemberPool(slot.f)

SetSlot(x, slot, v) ==
    IF slot.i = 0 THEN [x EXCEPT !.kw[slot.f] = v]
    ELSE [x EXCEPT !.crew[slot.i][slot.f] = v]

\* Every way to change at most k of the places from the j-th on.
RECURSIVE Variants(_, _, _, _, _)
Variants(c, x, slots, j, k) ==
    IF j > Len(slots) \/ k = 0 THEN {x}
    ELSE Variants(c, x, slots, j + 1, k)
         \cup UNION {Variants(c, SetSlot(x, slots[j], v), slots, j + 1, k - 1) :
                        v \in SlotPool(c, slots[j])}

Inputs(c) ==
    IF c = "mission"
    THEN UNION {Variants(c, [kw |-> MissionKwargs, crew |-> CrewOfLength(n)],
                         Slots(c, n), 1,
                         MaxMissionEdits - (IF n = Len(CrewOfLength(3)) THEN 0 ELSE 1)) :
                   n \in CrewLengths}
    ELSE Variants(c, [kw |-> MainKwargs(c), crew |-> <<>>], Slots(c, 0), 1, MaxEdits)

\* How far the mission data is from main's.
Distance(kw, items) ==
    Cardinality({f \in DOMAIN kw : kw[f] # MissionKwargs[f]})
    + (IF Len(items) = 3 THEN 0 ELSE 1)
    + Cardinality({s \in (1..Len(items)) \X DOMAIN sarah :
                      items[s[1]][s[2]] # CrewOfLength(Len(items))[s[1]][s[2]]})

---------------------------------------------------------------------------
(* The state machine *)

Init ==
    \E c \in Calls : \E x \in Inputs(c) :
        /\ call = c
        /\ kwargs = x.kw
        /\ crew = x.crew
        /\ result = NoResult
        /\ prevKind = "none"
        /\ mutated = FALSE
        /\ revalidated = FALSE

\* The caller's bookkeeping of a call that ended with outcome r.
Record(r) ==
    /\ result' = r
    /\ prevKind' = result.kind
    /\ revalidated' = mutated
    /\ mutated' = FALSE
    /\ UNCHANGED <<call, kwargs, crew>>

create_space_station ==
    /\ call = "station"
    /\ Record(Create("station", kwargs, crew))

create_alien_contact ==
    /\ call = "contact"
    /\ Record(Create("contact", kwargs, crew))

create_space_mission ==
    /\ call = "mission"
    /\ Record(Create("mission", kwargs, crew))

\* sarah["rank"] = Rank.CADET between two calls of create_space_mission: one
\* entry of one dict of the shared list changes; the list object stays.
MutateCrew ==
    /\ call = "mission"
    /\ result.kind # "none"
    /\ ~mutated
    /\ \E i \in 1..Len(crew) : \E f \in DOMAIN crew[i] : \E v \in MemberPool(f) :
          /\ v # crew[i][f]
          /\ Distance(kwargs, [crew EXCEPT ![i][f] = v]) <= MaxMissionEdits
          /\ crew' = [crew EXCEPT ![i][f] = v]
    /\ mutated' = TRUE
    /\ UNCHANGED <<call, kwargs, result, prevKind, revalidated>>

Next ==
    \/ create_space_station
    \/ create_alien_contact
    \/ create_space_mission
    \/ MutateCrew

Spec == Init /\ [][Next]_vars

---------------------------------------------------------------------------
(* What the properties below speak of *)

\* The latest call's outcome is that of the data as it is now.
Fresh == result.kind # "none" /\ ~mutated

Schema == SchemaOf(call)

FieldInvalid(fld, data) == ~ValidateField(data[fld.name], fld).ok

CrewIsList == call = "mission" /\ kwargs["crew"].t = "list"

\* The (1-based) places <<i, j>> of the crew list whose entry for the j-th
\* declared field of CrewMember is invalid.
InvalidEntries ==
    {p \in (1..Len(crew)) \X (1..Len(CrewMemberSchema)) :
        FieldInvalid(CrewMemberSchema[p[2]], crew[p[1]])}

CrewInvalid ==
    \/ ~CrewIsList
    \/ Len(crew) < 1
    \/ Len(crew) > 12
    \/ InvalidEntries # {}

\* The declared fields (by position) that are invalid.
InvalidFields ==
    {i \in 1..Len(Schema) :
        IF IsCrewField(Schema[i]) THEN CrewInvalid ELSE FieldInvalid(Schema[i], kwargs)}

\* The position of field f in the declaration of the record.
DeclaredAt(f) == CHOOSE i \in 1..Len(Schema) : Schema[i].name = f

ErrorLocs == [i \in 1..Len(result.errors) |-> result.errors[i].loc]

NoInvariantMessage == \A i \in 1..Len(result.errors) : result.errors[i].type # "value_error"

\* The paths of the errors of the crew field: one per invalid entry, by
\* element then declared field, when the list has 1 to 12 elements; else
\* the one of the list itself.
CrewLocs ==
    IF CrewIsList /\ Len(crew) <= 12 /\ InvalidEntries # {}
    THEN Flatten([i \in 1..Len(crew) |->
            Flatten([j \in 1..Len(CrewMemberSchema) |->
                IF <<i, j>> \in InvalidEntries
                THEN << <<"crew", i - 1, CrewMemberSchema[j].name>> >>
                ELSE <<>>])])
    ELSE IF CrewInvalid THEN << <<"crew">> >> ELSE <<>>

ExpectedLocs ==
    Flatten([i \in 1..Len(Schema) |->
        IF IsCrewField(Schema[i]) THEN CrewLocs
        ELSE IF FieldInvalid(Schema[i], kwargs) THEN << <<Schema[i].name>> >> ELSE <<>>])

\* The typed values of the record and of its crew, when every field is valid.
Typed == ValidateFields(Schema, kwargs, crew)

Rule(fails, msg) == [fails |-> fails, msg |-> msg]

\* The cross-field rules of a record in declared order, each with whether
\* it fails on the typed values v (and crew m) and the message it gives.
Rules(c, v, m) ==
    CASE c = "contact" ->
            << Rule(~startswith(v["contact_id"].s, "AC"),
                    "Contact ID must start with \"AC\" (Alien Contact)"),
               Rule(v["contact_type"] = PyEnum("ContactType", "PHYSICAL")
                        /\ v["is_verified"] = PyBool(FALSE),
                    "Physical contact reports must be verified"),
               Rule(v["contact_type"] = PyEnum("ContactType", "TELEPATHIC")
                        /\ ~(v["witness_count"].n >= 3),
                    "Telepathic contact requires at least 3 witnesses"),
               Rule(v["signal_strength"].n > 70 /\ v["message_received"] = PyNone,
                    "Strong signals (> 7.0) should include received messages") >>
      [] c = "mission" ->
            << Rule(~startswith(v["mission_id"].s, "M"),
                    "Mission ID must start with \"M\""),
               Rule(\A i \in 1..Len(m) :
                        m[i]["rank"] \notin {PyEnum("Rank", "CAPTAIN"), PyEnum("Rank", "COMMANDER")},
                    "Must have at least one Commander or Captain"),
               Rule(v["duration_days"].n > 365
                        /\ 2 * Cardinality({i \in 1..Len(m) : m[i]["years_experience"].n >= 5})
                           < Len(m),
                    "Long missions (> 365 days) need 50% experienced crew (5+ years)"),
               Rule(\E i \in 1..Len(m) : m[i]["is_active"] = PyBool(FALSE),
                    "All crew members must be active") >>
      [] OTHER -> <<>>

Failing(rules) == {i \in 1..Len(rules) : rules[i].fails}

FirstFailing(rules) == CHOOSE i \in Failing(rules) : \A j \in Failing(rules) : i <= j

InvariantError(msg) == <<Err(<<>>, "value_error", msg)>>

\* A typed value is within its field's declared constraint.
Satisfies(v, fld) ==
    CASE fld.kind = "str" ->
            /\ v.t = "str"
            /\ (fld.lo = NoBound \/ Len(v.s) >= fld.lo)
            /\ (fld.hi = NoBound \/ Len(v.s) <= fld.hi)
      [] fld.kind = "optstr" -> v = PyNone \/ (v.t = "str" /\ Len(v.s) <= fld.hi)
      [] fld.kind \in {"int", "float"} ->
            v.t = fld.kind /\ (fld.lo = NoBound \/ fld.lo <= v.n) /\ (fld.hi = NoBound \/ v.n <= fld.hi)
      [] fld.kind = "datetime" -> v.t = "datetime"
      [] fld.kind = "bool" -> v \in {PyBool(TRUE), PyBool(FALSE)}
      [] fld.kind = "crewlist" -> v.t = "list"
      [] OTHER -> v.t = fld.kind /\ v.s \in EnumNames(fld.kind)

AllSatisfy(fields, schema) ==
    /\ DOMAIN fields = FieldNames(schema)
    /\ \A i \in 1..Len(schema) : Satisfies(fields[schema[i].name], schema[i])

---------------------------------------------------------------------------
(* Properties *)

\* C1, as claimed: a record with k >= 1 invalid fields yields exactly k
\* errors, in declaration order, and no invariant message.
C1_Original ==
    (Fresh /\ InvalidFields # {}) =>
        /\ result.kind = "errors"
        /\ Len(result.errors) = Cardinality(InvalidFields)
        /\ \A a, b \in 1..Len(result.errors) :
              a < b => DeclaredAt(result.errors[a].loc[1]) < DeclaredAt(result.errors[b].loc[1])
        /\ NoInvariantMessage

\* C1, amended: a record with an invalid field yields one error per invalid
\* field, in declaration order, where the crew field counts once for each
\* invalid entry of each element (when the list has at most 12 elements),
\* and no invariant message: the model validator does not run.
C1_FieldErrorsAggregated ==
    (Fresh /\ InvalidFields # {}) =>
        /\ result.kind = "errors"
        /\ ErrorLocs = ExpectedLocs
        /\ (call # "mission" => Len(result.errors) = Cardinality(InvalidFields))
        /\ NoInvariantMessage

C1_Witness ==
    /\ Fresh
    /\ call = "mission"
    /\ Cardinality(InvalidFields) = 1
    /\ Len(result.errors) = 2
    /\ Typed.errors # <<>>

\* C2: every field valid and some cross-field rule failing: the report is
\* the one message of the first failing rule in declared order.
C2_FirstInvariantOnly ==
    (Fresh /\ InvalidFields = {} /\ Failing(Rules(call, Typed.vals, Typed.members)) # {}) =>
        /\ result.kind = "errors"
        /\ result.errors =
              InvariantError(Rules(call, Typed.vals, Typed.members)
                                [FirstFailing(Rules(call, Typed.vals, Typed.members))].msg)

C2_Witness ==
    /\ Fresh
    /\ call = "contact"
    /\ InvalidFields = {}
    /\ Failing(Rules(call, Typed.vals, Typed.members)) = {3, 4}
    /\ result.errors = InvariantError("Telepathic contact requires at least 3 witnesses")

\* C3: an instance is produced only on full success: each of its fields is
\* within its declared constraint, each nested CrewMember too, the crew
\* count is within 1..12, and every cross-field rule holds on it; any other
\* outcome carries no instance.
C3_InstanceIsValid ==
    /\ result.kind = "instance" =>
          /\ result.inst.present
          /\ AllSatisfy(result.inst.fields, Schema)
          /\ \A i \in 1..Len(result.inst.crew) :
                AllSatisfy(result.inst.crew[i], CrewMemberSchema)
          /\ (call = "mission" => Len(result.inst.crew) \in 1..12)
          /\ Failing(Rules(call, result.inst.fields, result.inst.crew)) = {}
    /\ result.kind # "instance" => ~result.inst.present

C3_Witness ==
    /\ result.kind = "instance"
    /\ call = "mission"
    /\ Len(result.inst.crew) = 12
    /\ result.inst.fields["duration_days"] = PyInt(365)

\* C4: validation after a mutation of the shared crew list sees the list
\* as it is now: after a successful validation, an entry set to inactive
\* makes the next validation fail on the all-active rule, and the only
\* commander or captain demoted to a lower rank makes it fail on the
\* commander rule.
C4_RevalidationSeesMutation ==
    (call = "mission" /\ revalidated /\ ~mutated /\ prevKind = "instance") =>
        /\ (\E i \in 1..Len(crew) : crew[i]["is_active"] = PyBool(FALSE)) =>
              result.errors = InvariantError("All crew members must be active")
        /\ (\A i \in 1..Len(crew) :
                crew[i]["rank"] \in {PyEnum("Rank", "CADET"), PyEnum("Rank", "OFFICER"),
                                     PyEnum("Rank", "LIEUTENANT")}) =>
              result.errors = InvariantError("Must have at least one Commander or Captain")

C4_Witness ==
    /\ call = "mission"
    /\ revalidated /\ ~mutated /\ prevKind = "instance"
    /\ Len(crew) = 3
    /\ crew[1]["rank"] = PyEnum("Rank", "CADET")
    /\ result.errors = InvariantError("Must have at least one Commander or Captain")

\* C5: for a mission with valid fields, an id starting with "M" and a
\* captain or commander in the crew, validation fails with the single
\* proportional-experience message exactly when duration_days > 365 and
\* fewer than half of the crew have 5 or more years of experience.
C5_ExperienceRule ==
    (/\ Fresh /\ call = "mission" /\ InvalidFields = {}
     /\ startswith(kwargs["mission_id"].s, "M")
     /\ \E i \in 1..Len(crew) :
           Typed.members[i]["rank"].s \in {"CAPTAIN", "COMMANDER"}) =>
        ( result.errors =
             InvariantError("Long missions (> 365 days) need 50% experienced crew (5+ years)")
          <=>
          /\ kwargs["duration_days"].n > 365
          /\ 2 * Cardinality({i \in 1..Len(crew) : crew[i]["years_experience"].n >= 5})
             < Len(crew) )

C5_Witness ==
    /\ Fresh /\ call = "mission"
    /\ result.kind = "instance"
    /\ kwargs["duration_days"] = PyInt(900)
    /\ Len(crew) = 4
    /\ Cardinality({i \in 1..Len(crew) : crew[i]["years_experience"].n >= 5}) = 2

C7_DefaultsIdempotent ==
    Fresh =>
        /\ \A f \in DOMAIN kwargs :
              kwargs[f] = Missing =>
                 \A d \in CASE call = "station" /\ f = "is_operational" -> {PyBool(TRUE)}
                            [] call = "station" /\ f = "notes" -> {PyNone}
                            [] call = "contact" /\ f = "message_received" -> {PyNone}
                            [] call = "contact" /\ f = "is_verified" -> {PyBool(FALSE)}
                            [] call = "mission" /\ f = "mission_status" -> {PyStr("planned")}
                            [] OTHER -> {} :
                    result = Create(call, [kwargs EXCEPT ![f] = d], crew)
        /\ \A i \in 1..Len(crew) :
              crew[i]["is_active"] = Missing =>
                 result = Create(call, kwargs, [crew EXCEPT ![i]["is_active"] = PyBool(TRUE)])

C7_Witness ==
    /\ Fresh /\ call = "mission"
    /\ kwargs["mission_status"] = Missing
    /\ Len(crew) = 3
    /\ \A i \in 1..Len(crew) : crew[i]["is_active"] = Missing
    /\ result.kind = "instance"
    /\ result.inst.fields["mission_status"] = PyStr("planned")
    /\ \A i \in 1..3 : result.inst.crew[i]["is_active"] = PyBool(TRUE)

\* C8: a call ends with an instance and no error, or with a non-empty list
\* of errors and no instance; no exception leaves create_*, and an invalid
\* field or a failing rule never ends as an instance.
C8_FailuresAreData ==
    result.kind # "none" =>
        /\ result.kind \in {"instance", "errors"}
        /\ result.exc = ""
        /\ result.kind = "instance" => (result.inst.present /\ result.errors = <<>>)
        /\ result.kind = "errors" => (~result.inst.present /\ result.errors # <<>>)
        /\ (Fresh /\ InvalidFields # {}) => result.kind = "errors"

C8_Witness ==
    /\ result.kind = "errors"
    /\ call = "mission"
    /\ ~result.inst.present
    /\ result.errors = InvariantError("Mission ID must start with \"M\"")

\* C9: for a station whose other fields are valid, an integer crew_size is
\* accepted exactly when it is from 1 to 20, and a rejected one yields one
\* error, at crew_size, of a range type.
C9_CrewSizeBounds ==
    (/\ Fresh /\ call = "station"
     /\ kwargs["crew_size"].t = "int"
     /\ \A i \in InvalidFields : Schema[i].name = "crew_size") =>
        IF 1 <= kwargs["crew_size"].n /\ kwargs["crew_size"].n <= 20
        THEN result.kind = "instance" /\ result.inst.fields["crew_size"] = kwargs["crew_size"]
        ELSE /\ result.kind = "errors"
             /\ Len(result.errors) = 1
             /\ result.errors[1].loc = <<"crew_size">>
             /\ result.errors[1].type \in {"greater_than_equal", "less_than_equal"}

C9_Witness ==
    /\ Fresh /\ call = "station"
    /\ kwargs["crew_size"] = PyInt(20)
    /\ result.kind = "instance"

\* C10: an empty crew list is a count error at crew and never reaches the
\* model validator: it is never reported as a missing commander, and
\* whenever validate_mission has run the list has 1 to 12 elements, so its
\* division is never by zero.
C10_EmptyCrewIsFieldError ==
    (Fresh /\ CrewIsList) =>
        /\ crew = <<>> =>
              /\ result.kind = "errors"
              /\ \E k \in 1..Len(result.errors) :
                    result.errors[k] = Err(<<"crew">>, "too_short", "")
              /\ NoInvariantMessage
        /\ (result.kind = "instance" \/ ~NoInvariantMessage) => Len(crew) \in 1..12
        /\ result.exc # "ZeroDivisionError"

C10_Witness ==
    /\ Fresh /\ CrewIsList
    /\ crew = <<>>
    /\ kwargs["mission_id"] = PyStr("X2024_MARS")
    /\ ErrorLocs = << <<"crew">> >>

=============================================================================
